---- MODULE Spec2Model ----
(***************************************************************************)
(* ChemCalcFormulaFinder (mass_formula.py): the batch loop of formulas(),  *)
(* one HTTP GET per query through the adapter the session selects for the  *)
(* endpoint, the classification of the GET's outcome by get_formulas, and  *)
(* the normalisation of a response into rows by json_to_dataframe.         *)
(*                                                                         *)
(* A dict is a function from keys to values, a DataFrame is the sequence   *)
(* of its rows, and a row is a function from the columns it populates to   *)
(* their values (a column that is NaN in a row is not in its DOMAIN).      *)
(***************************************************************************)
EXTENDS Integers, Sequences, FiniteSets, TLC

\* ------------------------------------------------------------------ bounds
MaxLen == 3         \* longest argument sequence of a formulas() call
MaxResults == 2     \* most candidate formulas in one server response

\* ------------------------------------------------------------ input values
Masses == {50, 150}
Accuracies == {1}
Ranges == {"C0-2H0-4"}
Charges == {"+"}
StatusCodes == {200, 503}

None == "None"      \* Python's None

SeqsUpTo(S, n) == UNION {[1..k -> S] : k \in 0..n}

\* ----------------------------------------------------------------- dicts
Merge(a, b) == [k \in DOMAIN a \cup DOMAIN b |-> IF k \in DOMAIN b THEN b[k] ELSE a[k]]
Del(d, key) == [k \in DOMAIN d \ {key} |-> d[k]]
Get(d, key, default) == IF key \in DOMAIN d THEN d[key] ELSE default

\* ------------------------------------------------------ class attributes
url == "https://www.chemcalc.org/chemcalc/em"

\* ------------------------------------------------------------ __init__
RetryTotal == 4
status_forcelist == {429, 500, 502, 503, 504}

\* Retry(total=4, backoff_factor=1, allowed_methods=None, status_forcelist=[...]):
\* read errors count against total (read=None) and every method is retried.
retry_adapter == [total |-> RetryTotal, read |-> TRUE, forcelist |-> status_forcelist]
\* HTTPAdapter() as requests.Session() mounts it: Retry(0, read=False).
default_adapter == [total |-> 0, read |-> FALSE, forcelist |-> {}]

StartsWith(s, p) == Len(p) <= Len(s) /\ SubSeq(s, 1, Len(p)) = p

\* Session.mount: set adapters[prefix], then move the shorter prefixes behind it.
mount(adapters, prefix, adapter) ==
    LET has == \E i \in 1..Len(adapters) : adapters[i].prefix = prefix
        put == IF has
               THEN [i \in 1..Len(adapters) |->
                        IF adapters[i].prefix = prefix
                        THEN [prefix |-> prefix, adapter |-> adapter]
                        ELSE adapters[i]]
               ELSE Append(adapters, [prefix |-> prefix, adapter |-> adapter])
        IsShort(e) == Len(e.prefix) < Len(prefix)
        IsLong(e) == ~IsShort(e)
    IN  SelectSeq(put, IsLong) \o SelectSeq(put, IsShort)

MountPrefix == "http://"

\* The session after the constructor: requests.Session() mounts the default
\* adapter on both schemes, then line 51 mounts the retrying adapter.
session ==
    mount(mount(mount(<<>>, "https://", default_adapter),
                "http://", default_adapter),
          MountPrefix, retry_adapter)

\* Session.get_adapter: the first mounted prefix the URL starts with.
get_adapter(adapters, u) ==
    LET hits == {i \in 1..Len(adapters) : StartsWith(u, adapters[i].prefix)}
        first == CHOOSE i \in hits : \A j \in hits : i <= j
    IN  adapters[first].adapter

VARIABLES
    args,           \* the four arguments of the formulas() call
    pc,             \* where formulas() is
    params,         \* the zip object: strict flag and its four sequences
    index,          \* enumerate's index of the pair being processed
    cur,            \* the pair being processed
    attempts,       \* sends made by the GET in progress
    last,           \* outcome of the latest send
    formulas_json,  \* the response object formulas() holds (mutable)
    results,        \* the list of per-query tables
    table,          \* the table formulas() returned
    exc,            \* the exception formulas() raised
    history         \* per get_formulas call: its query, its sends, how the GET
                    \* ended, and what the call raised or returned

vars == <<args, pc, params, index, cur, attempts, last, formulas_json,
          results, table, exc, history>>

\* ----------------------------------------------------------- get_formulas
\* One send of the GET as the environment answers it.
Outcomes ==
    {[kind |-> k, status |-> 0, body |-> "none", nresults |-> 0] :
        k \in {"connect_error", "read_timeout"}}
    \cup {[kind |-> "response", status |-> s, body |-> "invalid", nresults |-> 0] :
        s \in StatusCodes}
    \cup {[kind |-> "response", status |-> s, body |-> "object", nresults |-> n] :
        s \in StatusCodes, n \in 0..MaxResults}

NoOutcome == [kind |-> "none", status |-> 0, body |-> "none", nresults |-> 0]

\* line 80: the range string that is sent and echoed.
mfRangeOf(q) == q.mf_range \o "(" \o q.charge \o ")"

\* lines 81-94: the query parameters (those the server echoes in "options").
Params(q) ==
    [mfRange |-> mfRangeOf(q),
     numberOfResultsOnly |-> FALSE,
     monoisotopicMass |-> q.mass,
     referenceVersion |-> "2013",
     massRange |-> q.accuracy]

\* The decoded body of a well-formed answer: n candidates, the options echoed,
\* and a top-level scalar.
ServerPayload(q, n) ==
    [results |-> [i \in 1..n |-> [em |-> q.mass, mf |-> "CH", unsat |-> i]],
     options |-> Params(q),
     numberResults |-> n]

\* HTTPAdapter.send under the adapter's Retry, for the n-th send of a GET that
\* was answered by o: what the session's get() does next.
send(adapter, n, o) ==
    IF o.kind = "read_timeout" /\ ~adapter.read THEN "ReadTimeout"
    ELSE IF o.kind \in {"connect_error", "read_timeout"}
         THEN (IF n <= adapter.total THEN "retry" ELSE "ConnectionError")
    ELSE IF o.status \in adapter.forcelist
         THEN (IF n <= adapter.total THEN "retry" ELSE "RetryError")
    ELSE IF o.body = "invalid" THEN "JSONDecodeError"
    ELSE "json"

\* lines 105-114
ErrorPayload(q, fatal_error, error_description) ==
    [error |->
        [fatal |-> fatal_error,
         error_description |-> error_description,
         em |-> q.mass,
         accuracy |-> q.accuracy,
         mfRange |-> mfRangeOf(q),
         charge |-> q.charge]]

\* lines 97-98
SuccessPayload(body) == Merge(body, [error |-> [error_description |-> None]])

\* lines 95-114: the try block around the GET, given how the GET ended.
\* [exc, payload]: exc is the exception that leaves get_formulas, or None.
get_formulas(q, ended, o) ==
    IF ended = "json"
    THEN [exc |-> None, payload |-> SuccessPayload(ServerPayload(q, o.nresults))]
    ELSE IF ended \in {"RetryError", "ConnectionError"}
    THEN [exc |-> None, payload |-> ErrorPayload(q, TRUE, ended)]
    ELSE IF ended = "JSONDecodeError"
    THEN [exc |-> None, payload |-> ErrorPayload(q, FALSE, ended)]
    ELSE [exc |-> ended, payload |-> <<>>]

\* ------------------------------------------------------ json_to_dataframe
\* The top-level keys of a response whose values are a dict or a list.
NestedKeys == {"results", "options", "error"}

\* lines 53-55
results_meta_data(json) ==
    LET meta == [k \in DOMAIN json \ NestedKeys |-> json[k]]
    IN  Merge(Merge(json.options, meta), json.error)

\* pd.DataFrame(d) for a dict d: with scalar values only and no index pandas
\* raises ValueError ("If using all scalar values, you must pass an index").
\* results_meta_data yields scalars only.
DataFrameOfScalars(d) == [exc |-> "ValueError", df |-> <<>>]

\* lines 71-76: one row per candidate, the metadata set on every row.
CandidateRows(res, meta_data) == [i \in 1..Len(res) |-> Merge(res[i], meta_data)]

\* json_to_dataframe without the del of line 61: the row keeps the fatal flag.
json_to_dataframe_KeepsFatal(json) ==
    IF json.error.error_description # None
    THEN [exc |-> None, df |-> <<json.error>>, json |-> json]
    ELSE LET meta_data == results_meta_data(json)
         IN  IF json.results = <<>>
             THEN [exc |-> "ValueError", df |-> <<>>, json |-> json]
             ELSE [exc |-> None, df |-> CandidateRows(json.results, meta_data),
                   json |-> json]

\* json_to_dataframe writing the merged metadata back into the response's
\* options (an in-place update instead of a new dict).
json_to_dataframe_UpdatesOptions(json) ==
    IF json.error.error_description # None
    THEN LET e == Del(json.error, "fatal")
         IN  [exc |-> None, df |-> <<e>>, json |-> [json EXCEPT !.error = e]]
    ELSE LET meta_data == results_meta_data(json)
             updated == [json EXCEPT !.options = meta_data]
         IN  IF json.results = <<>>
             THEN [exc |-> "ValueError", df |-> <<>>, json |-> updated]
             ELSE [exc |-> None, df |-> CandidateRows(json.results, meta_data),
                   json |-> updated]

\* lines 57-76. [exc, df, json]: the exception raised or None, the table, and
\* the argument object as the call leaves it.
json_to_dataframe(json) ==
    IF json.error.error_description # None
    THEN IF "fatal" \notin DOMAIN json.error
         THEN [exc |-> "KeyError", df |-> <<>>, json |-> json]
         ELSE LET e == Del(json.error, "fatal")
              IN  [exc |-> None, df |-> <<e>>, json |-> [json EXCEPT !.error = e]]
    ELSE LET meta_data == results_meta_data(json)
         IN  IF json.results = <<>>
             THEN LET d == DataFrameOfScalars(meta_data)
                  IN  [exc |-> d.exc, df |-> d.df, json |-> json]
             ELSE [exc |-> None, df |-> CandidateRows(json.results, meta_data),
                   json |-> json]

\* --------------------------------------------------------------- formulas
\* Tagging with a 1-based position.
SetSearchNumber_OneBased(df, i) ==
    [r \in 1..Len(df) |-> Merge(df[r], [search_number |-> i + 1])]

\* line 133
SetSearchNumber(df, i) ==
    [r \in 1..Len(df) |-> Merge(df[r], [search_number |-> i])]

\* line 135: the key the halt check reads.
HaltKey == "fatal_error"
Halts(json) == Get(json.error, HaltKey, FALSE)

\* zip's __next__ after `pos` pairs: "yield", "stop" or "ValueError" (strict).
ZipNext(p) ==
    IF \A k \in 1..4 : Len(p.its[k]) > p.pos THEN "yield"
    ELSE IF p.strict /\ \E k \in 1..4 : Len(p.its[k]) > p.pos THEN "ValueError"
    ELSE "stop"

ZipItem(p) ==
    [mass |-> p.its[1][p.pos + 1], accuracy |-> p.its[2][p.pos + 1],
     mf_range |-> p.its[3][p.pos + 1], charge |-> p.its[4][p.pos + 1]]

\* pd.concat of a list of tables
RECURSIVE Concat(_)
Concat(tables) ==
    IF tables = <<>> THEN <<>> ELSE Head(tables) \o Concat(Tail(tables))

NoQuery == [mass |-> 0, accuracy |-> 0, mf_range |-> "", charge |-> ""]

ScalarCalls ==
    [scalar : {TRUE}, mass : Masses, accuracy : Accuracies,
     mf_range : Ranges, charge : Charges]
SequenceCalls ==
    [scalar : {FALSE}, mass : SeqsUpTo(Masses, MaxLen),
     accuracy : SeqsUpTo(Accuracies, MaxLen),
     mf_range : SeqsUpTo(Ranges, MaxLen), charge : SeqsUpTo(Charges, MaxLen)]

Init ==
    /\ args \in ScalarCalls \cup SequenceCalls
    /\ pc = "start"
    /\ params = [strict |-> FALSE, its |-> <<>>, pos |-> 0]
    /\ index = 0
    /\ cur = NoQuery
    /\ attempts = 0
    /\ last = NoOutcome
    /\ formulas_json = <<>>
    /\ results = <<>>
    /\ table = <<>>
    /\ exc = None
    /\ history = <<>>

\* lines 125-129: zip(..., strict=True) raises TypeError at once when an
\* argument is not iterable, and the scalars are then wrapped.
Call ==
    /\ pc = "start"
    /\ params' =
        IF args.scalar
        THEN [strict |-> FALSE, pos |-> 0,
              its |-> << <<args.mass>>, <<args.accuracy>>,
                         <<args.mf_range>>, <<args.charge>> >>]
        ELSE [strict |-> TRUE, pos |-> 0,
              its |-> <<args.mass, args.accuracy, args.mf_range, args.charge>>]
    /\ pc' = "loop"
    /\ UNCHANGED <<args, index, cur, attempts, last, formulas_json,
                   results, table, exc, history>>

\* line 130: the next pair, or the strict zip's ValueError; line 131 enters
\* get_formulas for the pair.
Iterate ==
    /\ pc = "loop"
    /\ ZipNext(params) # "stop"
    /\ IF ZipNext(params) = "yield"
       THEN /\ cur' = ZipItem(params)
            /\ index' = params.pos
            /\ params' = [params EXCEPT !.pos = @ + 1]
            /\ attempts' = 0
            /\ pc' = "get"
            /\ exc' = exc
       ELSE /\ pc' = "raised"
            /\ exc' = "ValueError"
            /\ UNCHANGED <<cur, index, params, attempts>>
    /\ UNCHANGED <<args, last, formulas_json, results, table, history>>

\* line 96 and the handlers of lines 99-114: one send of the GET through the
\* adapter the session selects for the URL; a send that is not retried ends
\* get_formulas.
Send ==
    /\ pc = "get"
    /\ \E o \in Outcomes :
        LET n == attempts + 1
            ended == send(get_adapter(session, url), n, o)
            r == get_formulas(cur, ended, o)
        IN  /\ attempts' = n
            /\ last' = o
            /\ IF ended = "retry"
               THEN /\ pc' = "get"
                    /\ UNCHANGED <<formulas_json, exc, history>>
               ELSE /\ history' = Append(history,
                            [query |-> cur, sends |-> n, ended |-> ended,
                             outcome |-> o, exc |-> r.exc,
                             payload |-> r.payload])
                    /\ formulas_json' = r.payload
                    /\ exc' = r.exc
                    /\ pc' = IF r.exc # None THEN "raised" ELSE "normalize"
    /\ UNCHANGED <<args, params, index, cur, results, table>>

\* lines 132-136
Normalize ==
    /\ pc = "normalize"
    /\ LET r == json_to_dataframe(formulas_json)
       IN  /\ formulas_json' = r.json
           /\ exc' = r.exc
           /\ IF r.exc # None
              THEN /\ pc' = "raised"
                   /\ results' = results
              ELSE /\ results' = Append(results, SetSearchNumber(r.df, index))
                   /\ pc' = IF Halts(r.json) THEN "break" ELSE "loop"
    /\ UNCHANGED <<args, params, index, cur, attempts, last, table, history>>

\* line 137: pd.concat raises ValueError on an empty list.
Return ==
    /\ IF pc = "loop" THEN ZipNext(params) = "stop" ELSE pc = "break"
    /\ IF results = <<>>
       THEN /\ pc' = "raised"
            /\ exc' = "ValueError"
            /\ table' = table
       ELSE /\ pc' = "returned"
            /\ table' = Concat(results)
            /\ exc' = exc
    /\ UNCHANGED <<args, params, index, cur, attempts, last, formulas_json,
                   results, history>>

Next == Call \/ Iterate \/ Send \/ Normalize \/ Return

Spec == Init /\ [][Next]_vars

\* ================================================================= claims
\* The number of pairs the zip of the call can form.
Shortest(S) == CHOOSE n \in S : \A m \in S : n <= m
Lengths == {Len(args.mass), Len(args.accuracy), Len(args.mf_range), Len(args.charge)}
N == IF args.scalar THEN 1 ELSE Shortest(Lengths)
EqualLengths == Cardinality(Lengths) = 1
WellShaped == args.scalar \/ EqualLengths
Finished == pc \in {"returned", "raised"}

FatalEndings == {"RetryError", "ConnectionError"}
ErrorEndings == FatalEndings \cup {"JSONDecodeError"}
ErrorColumns == {"error_description", "em", "accuracy", "mfRange", "charge"}
SearchNumbers(t) == {t[r].search_number : r \in 1..Len(t)}

\* C1: once the query at position k of a batch ended in a fatal error
\* (RetryError or ConnectionError) with queries left after it, no later query
\* is issued, and a returned table has rows for the queries 0..k only.
C1_FatalErrorStopsBatch ==
    \A k \in 1..Len(history) :
        history[k].ended \in FatalEndings =>
            /\ Len(history) = k
            /\ index = k - 1
            /\ pc = "returned" => SearchNumbers(table) = 0..(k - 1)

\* C2: a call with four sequences whose lengths are not all equal issues no
\* GET at all, and ends by raising the input-validation error.
C2_MismatchedLengthsNoGet ==
    (~args.scalar /\ ~EqualLengths) =>
        /\ history = <<>>
        /\ attempts = 0
        /\ pc # "returned"
        /\ pc = "raised" => exc = "ValueError"

\* C3: for well-shaped inputs, a query whose GET ended in a transport failure
\* (connection failure, retry exhaustion, timeout) or a decode failure never
\* makes formulas() raise: get_formulas returns an error payload for it.
C3_FailuresNeverEscape ==
    (WellShaped /\ history # <<>> /\ history[Len(history)].ended # "json") =>
        /\ pc # "raised"
        /\ history[Len(history)].exc = None

\* The query a row came from, read off the row: the echoed mass of an error
\* row, the echoed monoisotopicMass option of a candidate row.
RowMass(row) ==
    IF "monoisotopicMass" \in DOMAIN row THEN row.monoisotopicMass ELSE row.em

\* C4: in the returned table every row carries the 0-based position of the
\* query that produced it as search_number, search_number never decreases
\* down the table, and when all N queries completed the search_number values
\* are exactly 0..N-1.
C4_SearchNumberIsPosition ==
    pc = "returned" =>
        /\ table = Concat(results)
        /\ \A i \in 1..Len(results) : \A r \in 1..Len(results[i]) :
              /\ results[i][r].search_number = i - 1
              /\ RowMass(results[i][r]) = history[i].query.mass
        /\ \A r \in 1..(Len(table) - 1) :
              table[r].search_number <= table[r + 1].search_number
        /\ Len(history) = N => SearchNumbers(table) = 0..(N - 1)

C4_Witness ==
    /\ pc = "returned"
    /\ N = 3
    /\ Len(history) = 3
    /\ Len(table) > 3
    /\ \E k \in 1..3 : history[k].ended \in ErrorEndings

\* C5: the GET is governed by the constructor's Retry policy: a failure is
\* reported to get_formulas only after 1 + 4 sends, and a response with a
\* status of the force list is re-attempted, never handed to get_formulas.
C5_RetryPolicyGovernsGet ==
    \A k \in 1..Len(history) :
        /\ history[k].ended \in FatalEndings => history[k].sends = RetryTotal + 1
        /\ history[k].outcome.kind = "response" =>
              history[k].outcome.status \notin status_forcelist

\* C6: a successful response with an empty results list is normalised, without
\* failing, into exactly one row that holds the metadata and no candidate
\* column.
C6_EmptyResultsOneMetadataRow ==
    \A k \in 1..Len(history) :
        (history[k].ended = "json" /\ history[k].outcome.nresults = 0) =>
            /\ Len(results) < k => pc = "normalize"
            /\ Len(results) >= k =>
                  /\ Len(results[k]) = 1
                  /\ DOMAIN results[k][1] \cap {"mf", "unsat"} = {}
                  /\ DOMAIN results[k][1] =
                        DOMAIN results_meta_data(history[k].payload)
                            \cup {"search_number"}

\* C7: a response with a non-null error_description is normalised into exactly
\* one row, built from the error payload (error_description and the echoed em,
\* accuracy, mfRange, charge), with no candidate column and no fatal column.
C7_ErrorResponseOneRow ==
    \A k \in 1..Len(history) :
        (history[k].exc = None
         /\ history[k].payload.error.error_description # None) =>
            /\ Len(results) < k => pc = "normalize"
            /\ Len(results) >= k =>
                  /\ Len(results[k]) = 1
                  /\ DOMAIN results[k][1] = ErrorColumns \cup {"search_number"}
                  /\ \A c \in ErrorColumns :
                        results[k][1][c] = history[k].payload.error[c]

C7_Witness ==
    /\ Len(results) = 2
    /\ history[1].ended = "ConnectionError"
    /\ history[2].ended = "JSONDecodeError"
    /\ "fatal" \in DOMAIN history[1].payload.error

\* C8: a query that ended in a non-fatal decode error or in success, with
\* queries left after it, never ends the batch: the next query is issued.
C8_NonFatalNeverStopsBatch ==
    \A k \in 1..Len(history) :
        (history[k].ended \in {"JSONDecodeError", "json"} /\ k < N) =>
            ~(Finished /\ Len(history) = k)

\* C9: get_formulas turns every outcome of its GET into one of three payloads:
\* fatal error payload (retry exhaustion, connection failure), non-fatal error
\* payload (undecodable body), or the server payload with error set to
\* {error_description: None}; both error payloads have a non-null description
\* and echo em, accuracy, charge and the mfRange string that was sent.
C9_EveryOutcomeClassified ==
    \A k \in 1..Len(history) :
        LET h == history[k]
            q == h.query
            IsError(fatal) ==
                /\ h.payload.error.fatal = fatal
                /\ h.payload.error.error_description # None
                /\ h.payload.error.em = q.mass
                /\ h.payload.error.accuracy = q.accuracy
                /\ h.payload.error.charge = q.charge
                /\ h.payload.error.mfRange = q.mf_range \o "(" \o q.charge \o ")"
        IN  /\ h.exc = None
            /\ h.outcome.kind \in {"connect_error", "read_timeout"} => IsError(TRUE)
            /\ (h.outcome.kind = "response" /\ h.outcome.body = "invalid") =>
                  IsError(FALSE)
            /\ (h.outcome.kind = "response" /\ h.outcome.body = "object") =>
                  /\ h.payload.error = [error_description |-> None]
                  /\ Len(h.payload.results) = h.outcome.nresults

\* C10: json_to_dataframe leaves a success response as it was passed, and on
\* an error response only removes the fatal key of the error payload; so at
\* the halt check an error response carries no fatal flag.
C10_NormalizeFrame ==
    (history # <<>> /\ history[Len(history)].exc = None) =>
        LET given == history[Len(history)].payload
        IN  IF pc = "normalize" THEN formulas_json = given
            ELSE IF given.error.error_description = None
            THEN formulas_json = given
            ELSE /\ formulas_json =
                        [error |-> [c \in DOMAIN given.error \ {"fatal"} |->
                                        given.error[c]]]
                 /\ "fatal" \in DOMAIN given.error
                 /\ "fatal" \notin DOMAIN formulas_json.error

C10_Witness ==
    /\ Len(history) = 2
    /\ pc = "loop"
    /\ Len(results) = 2
    /\ history[1].ended = "json"
    /\ history[2].ended \in FatalEndings
    /\ history[2].payload.error.fatal
    /\ "fatal" \notin DOMAIN formulas_json.error

====
